---- MODULE Spec2Model ----
(***************************************************************************)
(* go-commit: remote-URL pattern matching, signature resolution and the    *)
(* commit workflow of package commitmate.                                   *)
(*                                                                         *)
(* A Go string is modelled as the sequence of its characters (valid UTF-8: *)
(* string equality and equality of the rune sequences coincide), so that   *)
(* []rune(s) and "range s" see the elements of the sequence.  A character  *)
(* may take more than one byte: "U+00E9" stands for a character of two     *)
(* bytes, every other character of the model takes one.  A string that is  *)
(* not valid UTF-8 holds, besides characters, bytes that belong to no      *)
(* character: "0xFF" and "0xFE" stand for two such bytes (they occur in no *)
(* encoding of a character, so a string is cut into characters and such    *)
(* bytes in one way only, and two strings are equal exactly when the       *)
(* sequences are).  []rune(s) and "range s" turn each such byte into the   *)
(* replacement character U+FFFD.  The                                      *)
(* empty string is the empty sequence.  Author names, mailboxes and        *)
(* messages are opaque and modelled as TLA+ strings, "" being empty.        *)
(***************************************************************************)
EXTENDS Integers, Sequences, FiniteSets, TLC

VARIABLES
    pc,           \* position of the current run
    pattern,      \* MatchRemotePattern: argument pattern
    remoteURL,    \* MatchRemotePattern / MatchSignature argument; local of ResolveSignature
    score,        \* MatchRemotePattern: returned score
    signatures,   \* CommitConfig.Signatures
    bestMatch,    \* MatchSignature: index of the returned signature, 0 for nil
    remotes,      \* the repository's remotes in enumeration order
    matchCalled,  \* whether ResolveSignature called MatchSignature
    resolved,     \* ResolveSignature: index of the returned signature, 0 for nil
    configGiven,  \* main: configPath != ""
    flagsIn,      \* the CommitFlags as parsed from the command line
    flags,        \* the CommitFlags, as the handlers change them
    gitConfig,    \* git config user.name / user.email of the repository
    repoIn,       \* the working tree and the commits when the run started
    files,        \* working tree: path -> state of the file
    commits,      \* the branch's commits, HEAD last
    nextId,       \* identity of the next commit object
    err,          \* GitCommit / FormatChangedGoFiles: whether it returned an error
    calls,        \* GitCommit: the collaborator calls it made, in order
    warnings,     \* ValidateFlags: the returned warnings
    allowFormat,  \* FormatChangedGoFiles: the allowFormat argument, path -> bool
    amendConfig,  \* GitCommit: the AmendConfig handed to AmendCommit: <<>>, then <<config>>
    threads,      \* concurrent MatchSignature calls: per thread its position and locals
    cells         \* where bestMatch and bestMatchScore of the calls live: cell -> pair

vars == <<pc, pattern, remoteURL, score, signatures, bestMatch, remotes,
          matchCalled, resolved, configGiven, flagsIn, flags, gitConfig,
          repoIn, files, commits, nextId, err, calls, warnings, allowFormat, amendConfig, threads, cells>>

(***************************************************************************)
(* Bounds                                                                  *)
(***************************************************************************)
MaxLen == 3          \* longest pattern and URL given to MatchRemotePattern
MaxSignatures == 2   \* most signatures of a configuration given to MatchSignature
MaxPatterns == 2     \* most RemotePatterns of one signature
MaxRemotes == 2      \* most remotes of a repository
MaxUnits == 2        \* longest pattern and URL that may hold invalid bytes
MaxThreads == 2      \* threads calling MatchSignature on one configuration

\* two literals, the second of them a two-byte character, and the wildcard
Alphabet == {"a", "U+00E9", "*"}

\* All strings over Alphabet of at most n characters.
StringsUpTo(n) == UNION {[1..k -> Alphabet] : k \in 0..n}

\* bytes that are part of no UTF-8 encoded character
InvalidBytes == {"0xFF", "0xFE"}

\* the elements of strings that need not be valid UTF-8
GlobAlphabet == Alphabet \cup InvalidBytes

\* All strings over GlobAlphabet of at most n elements.
ByteStringsUpTo(n) == UNION {[1..k -> GlobAlphabet] : k \in 0..n}

\* the rune that []rune(s) and "range s" yield for an element of s
Rune(c) == IF c \in InvalidBytes THEN "U+FFFD" ELSE c

\* []rune(s)
Runes(s) == [i \in DOMAIN s |-> Rune(s[i])]

(***************************************************************************)
(* internal/utils: the pattern matcher                                     *)
(***************************************************************************)

\* strings.Contains(pattern, "*")
ContainsWildcard(p) == \E i \in DOMAIN p : p[i] = "*"

\* a plausible slip: the '*' consumes the whole rest of the URL (greedy, no
\* backtracking), so a literal after it is never matched
RECURSIVE matchGlobGreedy(_, _)
matchGlobGreedy(u, p) ==
    IF Len(p) = 0 THEN Len(u) = 0
    ELSE IF Head(p) = "*" THEN matchGlobGreedy(<<>>, Tail(p))
    ELSE IF Len(u) = 0 THEN FALSE
    ELSE IF Head(u) = Head(p) THEN matchGlobGreedy(Tail(u), Tail(p))
    ELSE FALSE

RECURSIVE matchGlobRecursive(_, _)
matchGlobRecursive(u, p) ==
    IF Len(p) = 0 THEN Len(u) = 0
    ELSE IF Head(p) = "*"
         THEN \E i \in 0..Len(u) :
                 matchGlobRecursive(SubSeq(u, i + 1, Len(u)), Tail(p))
    ELSE IF Len(u) = 0 THEN FALSE
    ELSE IF Head(u) = Head(p) THEN matchGlobRecursive(Tail(u), Tail(p))
    ELSE FALSE

\* a plausible slip: the '*' stays in the pattern while it consumes a character
RecursiveCallsKeepingStar(u, p) ==
    IF Len(p) = 0 THEN {}
    ELSE IF Head(p) = "*"
         THEN {<<u, Tail(p)>>} \cup (IF Len(u) = 0 THEN {} ELSE {<<Tail(u), p>>})
    ELSE IF Len(u) = 0 THEN {}
    ELSE IF Head(u) = Head(p) THEN {<<Tail(u), Tail(p)>>}
    ELSE {}

\* the arguments <<remoteURL, pattern>> of the calls that one activation of
\* matchGlobRecursive can make (the loop over i may return before its end)
RecursiveCalls(u, p) ==
    IF Len(p) = 0 THEN {}
    ELSE IF Head(p) = "*"
         THEN {<<SubSeq(u, i + 1, Len(u)), Tail(p)>> : i \in 0..Len(u)}
    ELSE IF Len(u) = 0 THEN {}
    ELSE IF Head(u) = Head(p) THEN {<<Tail(u), Tail(p)>>}
    ELSE {}

\* a plausible slip: the equality test is left out
matchGlobWithoutEquality(u, p) ==
    IF ~ContainsWildcard(p) THEN FALSE
    ELSE matchGlobRecursive(Runes(u), Runes(p))

\* a plausible slip: the test for a pattern without wildcard is left out
matchGlobWithoutLiteralCheck(u, p) ==
    IF u = p THEN TRUE
    ELSE matchGlobRecursive(Runes(u), Runes(p))

matchGlob(u, p) ==
    IF u = p THEN TRUE
    ELSE IF ~ContainsWildcard(p) THEN FALSE
    ELSE matchGlobRecursive(Runes(u), Runes(p))

\* a plausible slip: every character counted, the wildcards included
countAllChars(p) == Len(p)

\* a plausible slip: the comparison inverted, the wildcards are counted
RECURSIVE countWildcardChars(_)
countWildcardChars(p) ==
    IF Len(p) = 0 THEN 0
    ELSE (IF Head(p) = "*" THEN 1 ELSE 0) + countWildcardChars(Tail(p))

RECURSIVE countNonWildcardChars(_)
countNonWildcardChars(p) ==
    IF Len(p) = 0 THEN 0
    ELSE (IF Rune(Head(p)) # "*" THEN 1 ELSE 0) + countNonWildcardChars(Tail(p))

MatchRemotePattern(p, u) ==
    IF ~matchGlob(u, p) THEN -1
    ELSE countNonWildcardChars(p)

(***************************************************************************)
(* commitmate: CommitConfig.MatchSignature                                 *)
(***************************************************************************)

\* MatchSignature returns a pointer into config.Signatures; the model returns
\* the index of that signature, NilSignature standing for nil.
NilSignature == 0

\* bestMatchScore := -1
InitialBestScore == -1

\* a plausible slip: an equal score replaces the incumbent too
replacesOnTie(s, bestMatchScore) == s >= bestMatchScore

\* a plausible slip: the first pattern that matches is kept
replacesFirstOnly(s, bestMatchScore) == s > bestMatchScore /\ bestMatchScore = -1

\* a plausible slip: a score of 0 is taken for "no match"
replacesPositive(s, bestMatchScore) == s > bestMatchScore /\ s > 0

\* if score > bestMatchScore
replaces(s, bestMatchScore) == s > bestMatchScore

\* a plausible slip: the inner loop breaks at the first pattern that matches
RECURSIVE scanPatternsBreak(_, _, _, _)
scanPatternsBreak(pats, idx, u, best) ==
    IF pats = <<>> THEN best
    ELSE LET s == MatchRemotePattern(Head(pats), u)
         IN IF s # -1
            THEN (IF replaces(s, best[2]) THEN <<idx, s>> ELSE best)
            ELSE scanPatternsBreak(Tail(pats), idx, u, best)

\* the inner loop over one signature's RemotePatterns; best = <<bestMatch, bestMatchScore>>
RECURSIVE scanPatterns(_, _, _, _)
scanPatterns(pats, idx, u, best) ==
    IF pats = <<>> THEN best
    ELSE LET s == MatchRemotePattern(Head(pats), u)
         IN scanPatterns(Tail(pats), idx, u,
                         IF replaces(s, best[2]) THEN <<idx, s>> ELSE best)

\* the outer loop over config.Signatures, from index k on
RECURSIVE scanSignatures(_, _, _, _)
scanSignatures(sigs, k, u, best) ==
    IF k > Len(sigs) THEN best
    ELSE scanSignatures(sigs, k + 1, u,
                        scanPatterns(sigs[k].RemotePatterns, k, u, best))

MatchSignature(sigs, u) ==
    scanSignatures(sigs, 1, u, <<NilSignature, InitialBestScore>>)[1]

\* the *SignatureConfig a signature index stands for: <<>> is nil, <<s>> points to s
SignaturePtr(sigs, idx) == IF idx = NilSignature THEN <<>> ELSE <<sigs[idx]>>

(***************************************************************************)
(* commitmate: CommitConfig.ResolveSignature                               *)
(***************************************************************************)

\* the for loop with break: URLs[0] of the first remote named origin that has URLs
originRemoteURL(rems) ==
    LET hits == {i \in DOMAIN rems :
                    rems[i].Name = "origin" /\ Len(rems[i].URLs) > 0}
    IN IF hits = {} THEN <<>>
       ELSE rems[CHOOSE i \in hits : \A j \in hits : i <= j].URLs[1]

\* a plausible slip: the first remote is taken whether or not origin exists
selectFirstRemoteURL(rems) ==
    IF Len(rems) > 0 /\ Len(rems[1].URLs) > 0 THEN rems[1].URLs[1] ELSE <<>>

\* the remoteURL that ResolveSignature matches against; <<>> is ""
selectRemoteURL(rems) ==
    IF Len(rems) > 0
    THEN LET o == originRemoteURL(rems)
         IN IF o = <<>> /\ Len(rems[1].URLs) > 0 THEN rems[1].URLs[1] ELSE o
    ELSE <<>>

\* the outcome of ResolveSignature: the URL it used, whether it called
\* MatchSignature, and the signature it returned (the error is always nil)
ResolveSignature(sigs, rems) ==
    LET u == selectRemoteURL(rems)
    IN IF u # <<>>
       THEN [remoteURL |-> u, called |-> TRUE, signature |-> MatchSignature(sigs, u)]
       ELSE [remoteURL |-> u, called |-> FALSE, signature |-> NilSignature]

(***************************************************************************)
(* commitmate: CommitFlags.ApplySignature                                  *)
(***************************************************************************)

\* a plausible slip: the second value is preferred
VVSecondFirst(a, b) == IF b # "" THEN b ELSE a

\* zerotern.VV: the first value unless it is the zero value, else the second
VV(a, b) == IF a # "" THEN a ELSE b

\* a plausible slip: a value already set on the flags is kept
ApplySignatureKeepFlags(f, signature) ==
    IF signature # <<>>
    THEN LET sig == signature[1]
             mailbox == VV(sig.Mailbox, sig.Eddress)
         IN [f EXCEPT !.Username = VV(f.Username, sig.Username),
                      !.Mailbox = VV(f.Mailbox, mailbox),
                      !.Eddress = VV(f.Eddress, mailbox)]
    ELSE f

\* signature is <<>> for nil, <<s>> for a pointer to the SignatureConfig s
ApplySignature(f, signature) ==
    IF signature # <<>>
    THEN LET sig == signature[1]
             f1 == [f EXCEPT !.Username = VV(sig.Username, f.Username)]
             mailbox == VV(sig.Mailbox, sig.Eddress)
         IN IF mailbox # ""
            THEN [f1 EXCEPT !.Mailbox = VV(mailbox, f1.Mailbox),
                            !.Eddress = VV(mailbox, f1.Eddress)]
            ELSE f1
    ELSE f

(***************************************************************************)
(* commitmate: CommitFlags.ValidateFlags                                   *)
(***************************************************************************)

ForceWithoutAmend == "force flag set but amend is disabled - force has no effect"
MessageWithNoCommit == "commit message provided but no-commit flag is set"
NoIdentity == "no authentication info provided and auto-sign disabled"

\* a plausible slip: the fallback address is forgotten in the identity check
ValidateFlagsWithoutEddress(f) ==
    (IF f.IsForce /\ ~f.IsAmend THEN <<ForceWithoutAmend>> ELSE <<>>)
    \o (IF f.NoCommit /\ f.Message # "" THEN <<MessageWithNoCommit>> ELSE <<>>)
    \o (IF ~f.AutoSign /\ f.Username = "" /\ f.Mailbox = ""
        THEN <<NoIdentity>> ELSE <<>>)

\* the warnings slice after the three appends; the receiver is only read
ValidateFlags(f) ==
    (IF f.IsForce /\ ~f.IsAmend THEN <<ForceWithoutAmend>> ELSE <<>>)
    \o (IF f.NoCommit /\ f.Message # "" THEN <<MessageWithNoCommit>> ELSE <<>>)
    \o (IF ~f.AutoSign /\ f.Username = "" /\ f.Mailbox = "" /\ f.Eddress = ""
        THEN <<NoIdentity>> ELSE <<>>)

(***************************************************************************)
(* commitmate: GitCommit and its collaborators                             *)
(*                                                                         *)
(* The working tree is a function from paths to [st, src]: st is "clean"   *)
(* (as in HEAD), "modified" (changed, not staged) or "staged"; src is the  *)
(* state of a Go source: "formatted", "unformatted" or "invalid" (syntax   *)
(* error).  A path is a record [name, suffix].                             *)
(***************************************************************************)

Paths == {[name |-> "main", suffix |-> ".go"],
          [name |-> "api", suffix |-> ".pb.go"],
          [name |-> "notes", suffix |-> ".txt"]}

\* filepath.Ext(path) == ".go"
IsGoFile(path) == path.suffix \in {".go", ".pb.go"}

\* generated files are skipped (of the three rules, the model's paths exercise .pb.go)
DefaultAllowFormat(path) == ~(path.suffix = ".pb.go")

\* a plausible slip: every path is reported, the unchanged ones included
StatusAll(fs) == DOMAIN fs

\* client.Status(): the paths that differ from HEAD
Status(fs) == {p \in DOMAIN fs : fs[p].st # "clean"}

\* a plausible slip: nothing is staged
AddAllNothing(fs) == fs

\* client.AddAll(): every change is staged
AddAll(fs) ==
    [p \in DOMAIN fs |-> IF fs[p].st = "modified" THEN [fs[p] EXCEPT !.st = "staged"]
                                                 ELSE fs[p]]

\* a plausible slip: allowFormat is not consulted
ChangedGoFilesUnfiltered(fs, allow) == {p \in DOMAIN fs : fs[p].st # "clean" /\ IsGoFile(p)}

\* the changed files ForeachChangedGoFile hands to the callback under the match
\* options MatchType(".go") and MatchPath(allowFormat); allow is path -> bool
ChangedGoFiles(fs, allow) == {p \in Status(fs) : IsGoFile(p) /\ allow[p]}

\* DefaultAllowFormat as the allowFormat argument
DefaultAllow == [p \in Paths |-> DefaultAllowFormat(p)]

\* the files FormatChangedGoFiles hands to formatgo.FormatFile when GitCommit calls it
FilesToFormat(fs) == ChangedGoFiles(fs, DefaultAllow)

\* formatgo.FormatFile on the paths in ps: an unformatted source is rewritten
FormatFiles(fs, ps) ==
    [p \in DOMAIN fs |-> IF p \in ps /\ fs[p].src = "unformatted"
                         THEN [st |-> "modified", src |-> "formatted"]
                         ELSE fs[p]]

\* FormatChangedGoFiles: the files are formatted one after the other and the
\* first failure is returned.  formatgo.FormatFile fails on a source with a
\* syntax error; fails makes it fail for another reason (the file cannot be
\* read or written); visited is the set of files reached before the failure.
FormatChangedGoFiles(fs, allow, fails, visited) ==
    LET todo == ChangedGoFiles(fs, allow)
        bad == {p \in todo : fs[p].src = "invalid"}
    IN IF fails \/ bad # {}
       THEN [files |-> FormatFiles(fs, (todo \ bad) \cap visited), err |-> TRUE]
       ELSE [files |-> FormatFiles(fs, todo), err |-> FALSE]

\* a plausible slip: git config wins over a name or mailbox given by the flags
useConfigSignInfoAlways(info, gc) ==
    [info EXCEPT !.Name = IF gc.name # "" THEN gc.name ELSE @,
                 !.Mailbox = IF gc.email # "" THEN gc.email ELSE @]

\* useConfigSignInfo: git config fills the fields the flags left empty
useConfigSignInfo(info, gc) ==
    [info EXCEPT !.Name = IF info.Name = "" /\ gc.name # "" THEN gc.name ELSE @,
                 !.Mailbox = IF info.Mailbox = "" /\ gc.email # "" THEN gc.email ELSE @]

\* commitInfo as GitCommit prepares it from the flags
CommitInfoOf(f, gc) ==
    LET info == [Name |-> f.Username,
                 Mailbox |-> VV(f.Mailbox, f.Eddress),
                 Message |-> f.Message]
    IN IF f.AutoSign THEN useConfigSignInfo(info, gc) ELSE info

\* the commit object the collaborator writes for commitInfo
CommitObject(id, info) ==
    [id |-> id, Name |-> info.Name, Mailbox |-> info.Mailbox, Message |-> info.Message]

\* a plausible slip: the committed changes stay in the status
KeepTree(fs) == fs

\* after a commit the working tree equals HEAD
AllClean(fs) == [p \in DOMAIN fs |-> [fs[p] EXCEPT !.st = "clean"]]

\* a plausible slip: the error of the formatting block is dropped
returnsNever(x) == FALSE

\* a plausible slip: --force alone is taken as a request to amend
amendsWhenForced(f) == f.IsAmend \/ f.IsForce

\* if commitFlags.IsAmend { AmendCommit } else { CommitAll }
amends(f) == f.IsAmend

\* if err != nil { return erero.Wro(err) }
returnsOnError(x) == x.err

\* The whole of GitCommit on a repository state r = [files, commits, nextId].
\* failAt = k > 0 makes the k-th collaborator call fail, visited is the set of
\* files the formatter reached before a failing one.  The result adds err
\* (an error was returned) and calls (the collaborator calls made, in order).
GitCommitOutcome(f, gc, r, failAt, visited) ==
    LET Start == [files |-> r.files, commits |-> r.commits, nextId |-> r.nextId,
                  err |-> FALSE, calls |-> <<>>, amendConfig |-> <<>>]
        Fails(x) == Len(x.calls) + 1 = failAt
        Call(x, c) == [x EXCEPT !.calls = Append(@, c)]
        Fail(x, c) == [x EXCEPT !.calls = Append(@, c), !.err = TRUE]
        \* if commitFlags.FormatGo { FormatChangedGoFiles; AddAll; Status }
        FormatBlock(x) ==
            LET out == FormatChangedGoFiles(x.files, DefaultAllow, Fails(x), visited)
            IN IF out.err
               THEN [Fail(x, "FormatChangedGoFiles") EXCEPT !.files = out.files]
               ELSE LET x1 == [Call(x, "FormatChangedGoFiles") EXCEPT !.files = out.files]
                    IN IF Fails(x1) THEN Fail(x1, "AddAll")
                       ELSE LET x2 == [Call(x1, "AddAll") EXCEPT !.files = AddAll(@)]
                            IN IF Fails(x2) THEN Fail(x2, "Status")
                               ELSE Call(x2, "Status")
        \* from "Exit when no changes to commit" to the end
        CommitBlock(x) ==
            IF Status(x.files) = {} THEN x
            ELSE IF f.NoCommit THEN x
            ELSE LET info == CommitInfoOf(f, gc)
                     \* &gogit.AmendConfig{CommitInfo: commitInfo, ForceAmend: commitFlags.IsForce}
                     config == <<[ForceAmend |-> f.IsForce]>>
                 IN IF amends(f)
                    THEN IF Fails(x) \/ x.commits = <<>>
                         THEN [Fail(x, "AmendCommit") EXCEPT !.amendConfig = config]
                         ELSE [Call(x, "AmendCommit") EXCEPT
                                  !.amendConfig = config,
                                  !.commits = [@ EXCEPT ![Len(@)] =
                                                  CommitObject(x.nextId, info)],
                                  !.nextId = @ + 1,
                                  !.files = AllClean(@)]
                    ELSE IF Fails(x)
                         THEN Fail(x, "CommitAll")
                         ELSE [Call(x, "CommitAll") EXCEPT
                                  !.commits = Append(@, CommitObject(x.nextId, info)),
                                  !.nextId = @ + 1,
                                  !.files = AllClean(@)]
    IN IF Fails(Start) THEN Fail(Start, "New")
       ELSE LET r1 == Call(Start, "New")
       IN IF Fails(r1) THEN Fail(r1, "Status")
       ELSE LET r2 == Call(r1, "Status")
       IN IF Fails(r2) THEN Fail(r2, "AddAll")
       ELSE LET r3 == [Call(r2, "AddAll") EXCEPT !.files = AddAll(@)]
       IN IF Fails(r3) THEN Fail(r3, "Status")
       ELSE LET r4 == Call(r3, "Status")
                r5 == IF f.FormatGo THEN FormatBlock(r4) ELSE r4
       IN IF returnsOnError(r5) THEN r5 ELSE CommitBlock(r5)

(***************************************************************************)
(* Inputs                                                                  *)
(***************************************************************************)

\* sequences without repetition over S, of at most n elements
DistinctSeqs(S, n) ==
    UNION {{q \in [1..k -> S] : \A i, j \in 1..k : i # j => q[i] # q[j]} : k \in 0..n}

SignatureConfig(username, mailbox, eddress, pats) ==
    [Name |-> "signature", Username |-> username, Mailbox |-> mailbox,
     Eddress |-> eddress, RemotePatterns |-> pats]

\* the patterns the configurations are built from: universal, prefix, exact,
\* and a wildcard between the literals of the exact one
PatternPool == {<<"*">>, <<"a", "*">>, <<"a", "b">>, <<"a", "*", "b">>}

\* the URLs given to MatchSignature
URLPool == {<<"a", "b">>, <<"b">>, <<"a", "a", "b">>}

PatternLists == DistinctSeqs(PatternPool, MaxPatterns)

SignatureLists ==
    UNION {[1..n -> {SignatureConfig("user", "", "user@mail", ps) : ps \in PatternLists}]
              : n \in 0..MaxSignatures}

\* a remote's URLs: none, an empty one, one, two
URLLists == {<<>>, << <<>> >>, << <<"a", "b">> >>, << <<"b">> >>,
             << <<"a", "b">>, <<"b">> >>}

RemoteNames == {"origin", "upstream", "fork"}

\* remotes carry distinct names
RemoteLists ==
    {q \in DistinctSeqs([Name : RemoteNames, URLs : URLLists], MaxRemotes) :
        \A i, j \in DOMAIN q : i # j => q[i].Name # q[j].Name}

\* signatures with every combination of empty and non-empty identity fields
IdentityPool ==
    {SignatureConfig(u, m, e, << <<"*">> >>) :
        u \in {"", "sig-user"}, m \in {"", "sig@mailbox"}, e \in {"", "sig@eddress"}}

AllFlags ==
    [Username : {"", "cli-user"}, Message : {"", "m0", "m1"},
     IsAmend : BOOLEAN, IsForce : BOOLEAN,
     Mailbox : {"", "cli@mailbox"}, Eddress : {"", "cli@eddress"},
     NoCommit : BOOLEAN, FormatGo : BOOLEAN, AutoSign : BOOLEAN]

ZeroFlags ==
    [Username |-> "", Message |-> "", IsAmend |-> FALSE, IsForce |-> FALSE,
     Mailbox |-> "", Eddress |-> "", NoCommit |-> FALSE, FormatGo |-> FALSE,
     AutoSign |-> FALSE]

CleanTree == [p \in Paths |-> [st |-> "clean", src |-> "formatted"]]

\* what a specification that does not use a part of the state holds it at
MatcherIdle == pattern = <<>> /\ score = "unset"
ResolverIdle == signatures = <<>> /\ bestMatch = "unset"
RemotesIdle == remotes = <<>> /\ matchCalled = FALSE /\ resolved = "unset"
FlagsIdle == configGiven = FALSE /\ flagsIn = ZeroFlags /\ flags = ZeroFlags
CallsIdle == amendConfig = <<>> /\ threads = <<>> /\ cells = <<>>
ToolsIdle == warnings = <<>> /\ allowFormat = DefaultAllow /\ CallsIdle
RepoIdle ==
    /\ gitConfig = [name |-> "", email |-> ""]
    /\ repoIn = [files |-> CleanTree, commits |-> <<>>]
    /\ files = CleanTree /\ commits = <<>> /\ nextId = 1
    /\ err = FALSE /\ calls = <<>>

(***************************************************************************)
(* SpecMatch: MatchRemotePattern on every pattern and URL                  *)
(***************************************************************************)
InitMatch ==
    /\ pc = "input"
    /\ pattern \in StringsUpTo(MaxLen)
    /\ remoteURL \in StringsUpTo(MaxLen)
    /\ score = "unset"
    /\ ResolverIdle /\ RemotesIdle /\ FlagsIdle /\ RepoIdle /\ ToolsIdle

CallMatchRemotePattern ==
    /\ pc = "input"
    /\ score' = MatchRemotePattern(pattern, remoteURL)
    /\ pc' = "matched"
    /\ UNCHANGED <<pattern, remoteURL, signatures, bestMatch, remotes, matchCalled,
                   resolved, configGiven, flagsIn, flags, gitConfig, repoIn, files,
                   commits, nextId, err, calls, warnings, allowFormat, amendConfig, threads, cells>>

NextMatch == CallMatchRemotePattern

SpecMatch == InitMatch /\ [][NextMatch]_vars

(***************************************************************************)
(* SpecGlob: MatchRemotePattern on strings that need not be valid UTF-8    *)
(***************************************************************************)
InitGlob ==
    /\ pc = "input"
    /\ pattern \in ByteStringsUpTo(MaxUnits)
    /\ remoteURL \in ByteStringsUpTo(MaxUnits)
    /\ score = "unset"
    /\ ResolverIdle /\ RemotesIdle /\ FlagsIdle /\ RepoIdle /\ ToolsIdle

NextGlob == CallMatchRemotePattern

SpecGlob == InitGlob /\ [][NextGlob]_vars

(***************************************************************************)
(* SpecSelect: MatchSignature on every configuration and URL               *)
(***************************************************************************)
InitSelect ==
    /\ pc = "config"
    /\ signatures \in SignatureLists
    /\ remoteURL \in URLPool
    /\ bestMatch = "unset"
    /\ MatcherIdle /\ RemotesIdle /\ FlagsIdle /\ RepoIdle /\ ToolsIdle

CallMatchSignature ==
    /\ pc = "config"
    /\ bestMatch' = MatchSignature(signatures, remoteURL)
    /\ pc' = "selected"
    /\ UNCHANGED <<pattern, remoteURL, score, signatures, remotes, matchCalled,
                   resolved, configGiven, flagsIn, flags, gitConfig, repoIn, files,
                   commits, nextId, err, calls, warnings, allowFormat, amendConfig, threads, cells>>

NextSelect == CallMatchSignature

SpecSelect == InitSelect /\ [][NextSelect]_vars

(***************************************************************************)
(* SpecResolve: ResolveSignature on every set of remotes                   *)
(***************************************************************************)

\* configurations with and without the universal pattern
ResolveConfigs ==
    {<<>>,
     <<SignatureConfig("user", "", "user@mail", << <<"*">> >>)>>,
     <<SignatureConfig("user", "", "user@mail", << <<"*">> >>),
       SignatureConfig("ab-user", "ab@mail", "", << <<"a", "*">> >>)>>}

InitResolve ==
    /\ pc = "repository"
    /\ signatures \in ResolveConfigs
    /\ remotes \in RemoteLists
    /\ remoteURL = <<>> /\ matchCalled = FALSE /\ resolved = "unset"
    /\ bestMatch = "unset"
    /\ MatcherIdle /\ FlagsIdle /\ RepoIdle /\ ToolsIdle

CallResolveSignature ==
    /\ pc = "repository"
    /\ LET out == ResolveSignature(signatures, remotes)
       IN /\ remoteURL' = out.remoteURL
          /\ matchCalled' = out.called
          /\ resolved' = out.signature
    /\ pc' = "resolved"
    /\ UNCHANGED <<pattern, score, signatures, bestMatch, remotes, configGiven,
                   flagsIn, flags, gitConfig, repoIn, files, commits, nextId, err,
                   calls, warnings, allowFormat, amendConfig, threads, cells>>

NextResolve == CallResolveSignature

SpecResolve == InitResolve /\ [][NextResolve]_vars

(***************************************************************************)
(* SpecApply: ApplySignature on every flags value and signature            *)
(***************************************************************************)
InitApply ==
    /\ pc = "flags"
    /\ flagsIn \in AllFlags
    /\ flags = flagsIn
    /\ signatures \in {<<sig>> : sig \in IdentityPool}
    /\ resolved \in {NilSignature, 1}
    /\ configGiven = TRUE
    /\ remotes = <<>> /\ matchCalled = FALSE /\ remoteURL = <<>>
    /\ bestMatch = "unset"
    /\ MatcherIdle /\ RepoIdle /\ ToolsIdle

CallApplySignature ==
    /\ pc = "flags"
    /\ flags' = ApplySignature(flags, SignaturePtr(signatures, resolved))
    /\ pc' = "applied"
    /\ UNCHANGED <<pattern, remoteURL, score, signatures, bestMatch, remotes,
                   matchCalled, resolved, configGiven, flagsIn, gitConfig, repoIn,
                   files, commits, nextId, err, calls, warnings, allowFormat, amendConfig, threads, cells>>

NextApply == CallApplySignature

SpecApply == InitApply /\ [][NextApply]_vars

(***************************************************************************)
(* Spec: one run of the tool (cmd/go-commit, rootCmd.Run):                 *)
(* ApplyProjectConfig when a configuration is given, then GitCommit        *)
(***************************************************************************)

\* the collaborator calls of the longest path through GitCommit
CallOrder == <<"New", "Status", "AddAll", "Status", "FormatChangedGoFiles",
               "AddAll", "Status", "CommitAll">>

\* the commit HEAD points to when the run starts on a repository with history
HeadCommit ==
    [id |-> 0, Name |-> "cli-user", Mailbox |-> "cli@mailbox", Message |-> "m0"]

RunConfigs ==
    {<<>>,
     <<SignatureConfig("sig-user", "sig@mailbox", "", << <<"a", "*">> >>)>>,
     <<SignatureConfig("", "", "sig@eddress", << <<"*">> >>)>>,
     <<SignatureConfig("wild-user", "wild@mailbox", "wild@eddress", << <<"*">> >>),
       SignatureConfig("sig-user", "", "", << <<"a", "b">> >>)>>}

RunRemotes ==
    {<<>>,
     <<[Name |-> "origin", URLs |-> << <<"a", "b">> >>]>>,
     <<[Name |-> "upstream", URLs |-> << <<"b">> >>],
       [Name |-> "origin", URLs |-> << <<"a", "b">> >>]>>}

MainPath == [name |-> "main", suffix |-> ".go"]
GeneratedPath == [name |-> "api", suffix |-> ".pb.go"]
NotesPath == [name |-> "notes", suffix |-> ".txt"]

\* working trees: nothing changed; a text file changed; a Go file changed and
\* unformatted; a generated and a broken Go file changed
RunTrees ==
    {CleanTree,
     [CleanTree EXCEPT ![NotesPath].st = "modified"],
     [CleanTree EXCEPT ![MainPath] = [st |-> "modified", src |-> "unformatted"]],
     [CleanTree EXCEPT ![MainPath] = [st |-> "staged", src |-> "invalid"],
                       ![GeneratedPath] = [st |-> "modified", src |-> "unformatted"]]}

\* the flags of a run with a configuration: --force is left out
ToolFlags == {f \in AllFlags : ~f.IsForce /\ f.Message # "m0"}

\* the flags given to GitCommit alone: every value of the nine fields
CommitFlags == AllFlags

GitConfigs == {[name |-> "", email |-> ""],
               [name |-> "git-user", email |-> "git@config"]}

Init ==
    /\ pc = "parsed"
    /\ configGiven \in BOOLEAN
    /\ signatures \in (IF configGiven THEN RunConfigs ELSE {<<>>})
    /\ remotes \in (IF configGiven THEN RunRemotes ELSE {<<>>})
    /\ flagsIn \in ToolFlags
    /\ flags = flagsIn
    /\ gitConfig \in GitConfigs
    /\ files \in {CleanTree,
                   [CleanTree EXCEPT ![MainPath] = [st |-> "modified", src |-> "unformatted"]]}
    /\ commits \in {<<>>, <<HeadCommit>>}
    /\ repoIn = [files |-> files, commits |-> commits]
    /\ nextId = 1
    /\ err = FALSE /\ calls = <<>>
    /\ remoteURL = <<>> /\ matchCalled = FALSE /\ resolved = "unset"
    /\ bestMatch = "unset"
    /\ MatcherIdle /\ ToolsIdle

\* f.ApplySignature(rese.V1(config.ResolveSignature(projectRoot)))
ApplyProjectConfig ==
    /\ pc = "parsed"
    /\ configGiven
    /\ LET out == ResolveSignature(signatures, remotes)
       IN /\ remoteURL' = out.remoteURL
          /\ matchCalled' = out.called
          /\ resolved' = out.signature
          /\ flags' = ApplySignature(flags, SignaturePtr(signatures, out.signature))
    /\ pc' = "applied"
    /\ UNCHANGED <<pattern, score, signatures, bestMatch, remotes, configGiven,
                   flagsIn, gitConfig, repoIn, files, commits, nextId, err, calls,
                   warnings, allowFormat, amendConfig, threads, cells>>

\* must.Done(commitmate.GitCommit(projectRoot, commitFlags))
GitCommit ==
    /\ pc = "applied" \/ (pc = "parsed" /\ ~configGiven)
    /\ \E failAt \in 0..Len(CallOrder), visited \in SUBSET FilesToFormat(AddAll(files)) :
          LET out == GitCommitOutcome(flags, gitConfig,
                        [files |-> files, commits |-> commits, nextId |-> nextId],
                        failAt, visited)
          IN /\ files' = out.files
             /\ commits' = out.commits
             /\ nextId' = out.nextId
             /\ err' = out.err
             /\ calls' = out.calls
             /\ amendConfig' = out.amendConfig
    /\ pc' = "done"
    /\ UNCHANGED <<pattern, remoteURL, score, signatures, bestMatch, remotes,
                   matchCalled, resolved, configGiven, flagsIn, flags, gitConfig,
                   repoIn, warnings, allowFormat, threads, cells>>

Next == ApplyProjectConfig \/ GitCommit

Spec == Init /\ [][Next]_vars

(***************************************************************************)
(* SpecCommit: GitCommit alone, on every flags value and working tree      *)
(***************************************************************************)
InitCommit ==
    /\ pc = "parsed"
    /\ configGiven = FALSE
    /\ flagsIn \in CommitFlags
    /\ flags = flagsIn
    /\ gitConfig \in GitConfigs
    /\ files \in RunTrees
    /\ commits \in {<<>>, <<HeadCommit>>}
    /\ repoIn = [files |-> files, commits |-> commits]
    /\ nextId = 1
    /\ err = FALSE /\ calls = <<>>
    /\ remoteURL = <<>>
    /\ MatcherIdle /\ ResolverIdle /\ RemotesIdle /\ ToolsIdle

NextCommit == GitCommit

SpecCommit == InitCommit /\ [][NextCommit]_vars

(***************************************************************************)
(* SpecValidate: ValidateFlags on every flags value                        *)
(***************************************************************************)
InitValidate ==
    /\ pc = "flags"
    /\ flagsIn \in AllFlags
    /\ flags = flagsIn
    /\ warnings = <<>>
    /\ configGiven = FALSE
    /\ allowFormat = DefaultAllow
    /\ remoteURL = <<>>
    /\ MatcherIdle /\ ResolverIdle /\ RemotesIdle /\ RepoIdle /\ CallsIdle

CallValidateFlags ==
    /\ pc = "flags"
    /\ warnings' = ValidateFlags(flags)
    /\ pc' = "validated"
    /\ UNCHANGED <<pattern, remoteURL, score, signatures, bestMatch, remotes,
                   matchCalled, resolved, configGiven, flagsIn, flags, gitConfig,
                   repoIn, files, commits, nextId, err, calls, allowFormat, amendConfig, threads, cells>>

NextValidate == CallValidateFlags

SpecValidate == InitValidate /\ [][NextValidate]_vars

(***************************************************************************)
(* SpecFormat: FormatChangedGoFiles on every working tree and allowFormat  *)
(***************************************************************************)

\* every working tree over the model's paths
AllTrees ==
    [Paths -> [st : {"clean", "modified", "staged"},
               src : {"formatted", "unformatted", "invalid"}]]

InitFormat ==
    /\ pc = "tree"
    /\ files \in AllTrees
    /\ allowFormat \in [Paths -> BOOLEAN]
    /\ repoIn = [files |-> files, commits |-> <<>>]
    /\ gitConfig = [name |-> "", email |-> ""]
    /\ commits = <<>> /\ nextId = 1 /\ err = FALSE /\ calls = <<>>
    /\ warnings = <<>>
    /\ remoteURL = <<>>
    /\ MatcherIdle /\ ResolverIdle /\ RemotesIdle /\ FlagsIdle /\ CallsIdle

CallFormatChangedGoFiles ==
    /\ pc = "tree"
    /\ \E fails \in BOOLEAN, visited \in SUBSET ChangedGoFiles(files, allowFormat) :
          LET out == FormatChangedGoFiles(files, allowFormat, fails, visited)
          IN files' = out.files /\ err' = out.err
    /\ pc' = "formatted"
    /\ UNCHANGED <<pattern, remoteURL, score, signatures, bestMatch, remotes,
                   matchCalled, resolved, configGiven, flagsIn, flags, gitConfig,
                   repoIn, commits, nextId, calls, warnings, allowFormat, amendConfig, threads, cells>>

NextFormat == CallFormatChangedGoFiles

SpecFormat == InitFormat /\ [][NextFormat]_vars

(***************************************************************************)
(* Properties of the matcher (SpecMatch)                                   *)
(***************************************************************************)

\* Glob semantics, stated on the strings alone: P accepts the whole of U when
\* U can be cut at positions cut[0] = 0 <= ... <= cut[Len(P)] = Len(U) such
\* that the k-th character of P, if a '*', stands for the (possibly empty)
\* piece between cut[k-1] and cut[k], and otherwise is exactly the one
\* character of U in that piece.
GlobAccepts(P, U) ==
    \E cut \in [0..Len(P) -> 0..Len(U)] :
        /\ cut[0] = 0
        /\ cut[Len(P)] = Len(U)
        /\ \A k \in 1..Len(P) :
              IF P[k] = "*" THEN cut[k] >= cut[k - 1]
              ELSE cut[k] = cut[k - 1] + 1 /\ U[cut[k]] = P[k]

C2_ScoreCountsLiterals ==
    pc = "matched" /\ score # -1 =>
        /\ score = Cardinality({i \in DOMAIN pattern : pattern[i] # "*"})
        /\ \A u \in StringsUpTo(MaxLen) :
              MatchRemotePattern(pattern, u) \in {-1, score}

\* C2 witness: a matching pattern with both literals and wildcards.
C2_Witness ==
    /\ pc = "matched"
    /\ score >= 1
    /\ score < Len(pattern)
    /\ Len(remoteURL) > score

(***************************************************************************)
(* Properties of the resolver (SpecSelect)                                 *)
(***************************************************************************)

\* the scores of signature i's patterns against U
ScoresOf(sigs, i, U) ==
    {MatchRemotePattern(sigs[i].RemotePatterns[j], U) : j \in DOMAIN sigs[i].RemotePatterns}

AllScores(sigs, U) == UNION {ScoresOf(sigs, i, U) : i \in DOMAIN sigs}

SomePatternMatches(sigs, U) == \E x \in AllScores(sigs, U) : x # -1

\* the highest score of any pattern of any signature, -1 when none matches
TopScore(sigs, U) ==
    LET all == AllScores(sigs, U) \cup {-1}
    IN CHOOSE m \in all : \A y \in all : y <= m

\* the signatures owning a pattern whose score is the maximum over all patterns
TopSignatures(sigs, U) ==
    LET top == TopScore(sigs, U)
    IN IF top = -1 THEN {}
       ELSE {i \in DOMAIN sigs : top \in ScoresOf(sigs, i, U)}

\* C3: when some pattern matches, the returned signature owns a pattern whose
\* score is the maximum over all patterns of all signatures.
C3_ReturnsTopScore ==
    pc = "selected" /\ SomePatternMatches(signatures, remoteURL) =>
        bestMatch \in TopSignatures(signatures, remoteURL)

\* C3 witness: the only top-scoring signature is listed after a matching,
\* less specific one, and is returned.
C3_Witness ==
    /\ pc = "selected"
    /\ Len(signatures) >= 2
    /\ TopSignatures(signatures, remoteURL) = {2}
    /\ ScoresOf(signatures, 1, remoteURL) # {-1}
    /\ ScoresOf(signatures, 1, remoteURL) # {}
    /\ bestMatch = 2

\* C4: among the signatures that attain the maximum score, the one listed
\* earliest is returned.
C4_EarliestWinsTie ==
    pc = "selected" /\ SomePatternMatches(signatures, remoteURL) =>
        /\ bestMatch \in TopSignatures(signatures, remoteURL)
        /\ \A i \in TopSignatures(signatures, remoteURL) : bestMatch <= i

\* C4 witness: two signatures tie on the maximum score, the first is returned.
C4_Witness ==
    /\ pc = "selected"
    /\ {1, 2} \subseteq TopSignatures(signatures, remoteURL)
    /\ bestMatch = 1

\* C5: nil is returned exactly when no pattern of any signature accepts the
\* URL (an empty list, and signatures without patterns, included).
C5_NilIffNoMatch ==
    pc = "selected" =>
        (bestMatch = NilSignature <=>
            ~\E i \in DOMAIN signatures : \E j \in DOMAIN signatures[i].RemotePatterns :
                GlobAccepts(signatures[i].RemotePatterns[j], remoteURL))

\* C5 witness: there are patterns, none matches, nil is returned.
C5_Witness ==
    /\ pc = "selected"
    /\ \E i \in DOMAIN signatures : signatures[i].RemotePatterns # <<>>
    /\ \E i \in DOMAIN signatures : signatures[i].RemotePatterns = <<>>
    /\ bestMatch = NilSignature

PolicyURL(rems) ==
    IF \E i \in DOMAIN rems :
          rems[i].Name = "origin" /\ rems[i].URLs # <<>> /\ rems[i].URLs[1] # <<>>
    THEN LET i == CHOOSE k \in DOMAIN rems :
                     rems[k].Name = "origin" /\ rems[k].URLs # <<>> /\ rems[k].URLs[1] # <<>>
         IN rems[i].URLs[1]
    ELSE IF rems # <<>> /\ rems[1].URLs # <<>> THEN rems[1].URLs[1]
    ELSE <<>>

\* C7: the URL used is the one the policy names; with no remotes, or no URL,
\* MatchSignature is not called and nil is returned, whatever the
\* configuration; with a URL, the result is MatchSignature's for that URL.
C7_RemoteSelection ==
    pc = "resolved" =>
        /\ remoteURL = PolicyURL(remotes)
        /\ (remotes = <<>> \/ remoteURL = <<>>) =>
              (~matchCalled /\ resolved = NilSignature)
        /\ remoteURL # <<>> =>
              (matchCalled /\ resolved = MatchSignature(signatures, PolicyURL(remotes)))

\* C7 witness: origin is listed second, after a remote with another URL, and
\* origin's URL is the one used.
C7_Witness ==
    /\ pc = "resolved"
    /\ Len(remotes) >= 2
    /\ remotes[2].Name = "origin"
    /\ remotes[1].URLs # <<>>
    /\ remotes[1].URLs[1] # <<>>
    /\ remotes[2].URLs # <<>>
    /\ remotes[2].URLs[1] # remotes[1].URLs[1]
    /\ remoteURL = remotes[2].URLs[1]
    /\ matchCalled

(***************************************************************************)
(* Properties of the run (Spec)                                            *)
(***************************************************************************)

\* the run ended with a commit or an amend that succeeded
CommitMade ==
    /\ pc = "done"
    /\ ~err
    /\ calls # <<>>
    /\ calls[Len(calls)] \in {"CommitAll", "AmendCommit"}

HeadNow == commits[Len(commits)]

\* the signature the run resolved, and its mailbox (Mailbox, else Eddress)
Selected == signatures[resolved]
SelectedMailbox == IF Selected.Mailbox # "" THEN Selected.Mailbox ELSE Selected.Eddress

C9_ApplySignatureEffect ==
    pc = "applied" =>
        IF resolved = NilSignature THEN flags = flagsIn
        ELSE LET sig == signatures[resolved]
             IN /\ flags.Username = IF sig.Username # "" THEN sig.Username
                                    ELSE flagsIn.Username
                /\ IF sig.Mailbox # "" \/ sig.Eddress # ""
                   THEN LET m == IF sig.Mailbox # "" THEN sig.Mailbox ELSE sig.Eddress
                        IN flags.Mailbox = m /\ flags.Eddress = m
                   ELSE flags.Mailbox = flagsIn.Mailbox /\ flags.Eddress = flagsIn.Eddress
                /\ \A k \in {"Message", "IsAmend", "IsForce", "NoCommit", "FormatGo",
                              "AutoSign"} : flags[k] = flagsIn[k]

\* C9 witness: a Username and a Mailbox set on the flags are overridden, the
\* Eddress is filled from the signature's Eddress.
C9_Witness ==
    /\ pc = "applied"
    /\ resolved # NilSignature
    /\ flagsIn.Username = "cli-user"
    /\ flagsIn.Mailbox = "cli@mailbox"
    /\ flagsIn.Eddress = ""
    /\ flagsIn.Message = "m1"
    /\ signatures[resolved].Mailbox = ""
    /\ flags.Username = "sig-user"
    /\ flags.Mailbox = "sig@eddress"
    /\ flags.Eddress = "sig@eddress"

(***************************************************************************)
(* Properties of GitCommit (SpecCommit)                                    *)
(***************************************************************************)

\* C10 as claimed: an amend on a repository without file changes rewrites
\* HEAD whenever the requested message, author name or mailbox differs from
\* HEAD's; afterwards HEAD carries them and the status is clean.
C10_AmendRewritesHead ==
    LET old == repoIn.commits[Len(repoIn.commits)]
        want == CommitInfoOf(flagsIn, gitConfig)
    IN (/\ pc = "done"
        /\ ~err
        /\ flagsIn.IsAmend
        /\ ~flagsIn.NoCommit
        /\ repoIn.commits # <<>>
        /\ Status(repoIn.files) = {}
        /\ want.Message # "" /\ want.Name # "" /\ want.Mailbox # ""
        /\ \/ want.Message # old.Message
           \/ want.Name # old.Name
           \/ want.Mailbox # old.Mailbox)
       => /\ HeadNow.Message = want.Message
          /\ HeadNow.Name = want.Name
          /\ HeadNow.Mailbox = want.Mailbox
          /\ Status(files) = {}

\* the elements of a sequence
Range(q) == {q[i] : i \in DOMAIN q}

\* HEAD when the run started
HeadIn == repoIn.commits[Len(repoIn.commits)]

\* no commit was created and none was amended
NoCommitStep == Range(calls) \cap {"CommitAll", "AmendCommit"} = {}

\* the steps that read, stage and format
ReadingSteps == {"New", "Status", "AddAll", "FormatChangedGoFiles"}

\* C11: an amend on a repository without file changes, asking for HEAD's own
\* message or for an empty one and for HEAD's author, leaves HEAD as it is (the
\* same commit object): no amend is attempted, and an error can only be that
\* of a reading or staging step that failed.
C11_AmendSameMessageKeepsHead ==
    (/\ pc = "done"
     /\ flagsIn.IsAmend
     /\ repoIn.commits # <<>>
     /\ repoIn.files = CleanTree
     /\ flagsIn.Message \in {"", HeadIn.Message}
     /\ CommitInfoOf(flagsIn, gitConfig).Name = HeadIn.Name
     /\ CommitInfoOf(flagsIn, gitConfig).Mailbox = HeadIn.Mailbox)
    => /\ commits = repoIn.commits
       /\ files = repoIn.files
       /\ NoCommitStep
       /\ err => calls[Len(calls)] \in ReadingSteps

\* C11 witness: the amend with HEAD's message and author ran to the end
\* without an error and HEAD is the commit it was.
C11_Witness ==
    /\ pc = "done"
    /\ ~err
    /\ flagsIn.IsAmend
    /\ ~flagsIn.NoCommit
    /\ flagsIn.Message = "m0"
    /\ flagsIn.Username = "cli-user"
    /\ flagsIn.Mailbox = "cli@mailbox"
    /\ repoIn.files = CleanTree
    /\ repoIn.commits = <<HeadCommit>>
    /\ commits = <<HeadCommit>>
    /\ calls = <<"New", "Status", "AddAll", "Status">>

ExpectedCalls(f) ==
    <<"New", "Status", "AddAll", "Status">>
    \o (IF f.FormatGo THEN <<"FormatChangedGoFiles", "AddAll", "Status">> ELSE <<>>)
    \o <<IF f.IsAmend THEN "AmendCommit" ELSE "CommitAll">>

\* C14: the steps are made in the fixed order and a failing step is the last
\* one made: after an error nothing has been committed or amended; and when
\* the formatter meets a changed Go source with a syntax error, GitCommit
\* returns an error and neither commits nor amends.
C14_ErrorStopsRun ==
    pc = "done" =>
        /\ Len(calls) <= Len(ExpectedCalls(flagsIn))
        /\ calls = SubSeq(ExpectedCalls(flagsIn), 1, Len(calls))
        /\ err => /\ calls # <<>>
                  /\ commits = repoIn.commits
                  /\ \A i \in 1..(Len(calls) - 1) : calls[i] \in ReadingSteps
        /\ (/\ flagsIn.FormatGo
            /\ repoIn.files[MainPath].st # "clean"
            /\ repoIn.files[MainPath].src = "invalid")
           => /\ err
              /\ NoCommitStep
              /\ commits = repoIn.commits

\* C14 witness: formatting failed on a source with a syntax error in a run
\* that would otherwise have committed; the formatter was the last step.
C14_Witness ==
    /\ pc = "done"
    /\ err
    /\ flagsIn.FormatGo /\ ~flagsIn.NoCommit /\ ~flagsIn.IsAmend
    /\ repoIn.files[MainPath].src = "invalid"
    /\ calls = <<"New", "Status", "AddAll", "Status", "FormatChangedGoFiles">>
    /\ commits = repoIn.commits

\* C15: the author of the commit is the name and the mailbox (Mailbox, else
\* Eddress) of the flags; only with AutoSign, and only for a field the flags
\* leave empty while git config has a value, is git config's value taken.
\* Without AutoSign the author does not depend on git config.
C15_AutoSignFillsEmptyOnly ==
    CommitMade /\ ~configGiven =>
        LET name == flagsIn.Username
            mailbox == IF flagsIn.Mailbox # "" THEN flagsIn.Mailbox ELSE flagsIn.Eddress
        IN /\ HeadNow.Name = IF flagsIn.AutoSign /\ name = "" /\ gitConfig.name # ""
                             THEN gitConfig.name ELSE name
           /\ HeadNow.Mailbox = IF flagsIn.AutoSign /\ mailbox = "" /\ gitConfig.email # ""
                                THEN gitConfig.email ELSE mailbox

\* C15 witness: with AutoSign the empty name came from git config while the
\* mailbox given by the flags was kept, git config having one too.
C15_Witness ==
    /\ CommitMade
    /\ ~configGiven
    /\ flagsIn.AutoSign
    /\ flagsIn.Username = ""
    /\ flagsIn.Mailbox = "cli@mailbox"
    /\ gitConfig = [name |-> "git-user", email |-> "git@config"]
    /\ HeadNow.Name = "git-user"
    /\ HeadNow.Mailbox = "cli@mailbox"

(***************************************************************************)
(* Properties of ValidateFlags (SpecValidate)                              *)
(***************************************************************************)

\* the three conditions in their fixed order, each with its warning
FlagConditions(f) ==
    <<[holds |-> f.IsForce /\ ~f.IsAmend, warning |-> ForceWithoutAmend],
      [holds |-> f.NoCommit /\ f.Message # "", warning |-> MessageWithNoCommit],
      [holds |-> ~f.AutoSign /\ f.Username = "" /\ f.Mailbox = "" /\ f.Eddress = "",
       warning |-> NoIdentity]>>

\* C16: the warnings are those of the conditions that hold, one each, in the
\* fixed order, and nothing else (none when no condition holds); the flags
\* are what they were.
C16_WarningsPerCondition ==
    pc = "validated" =>
        LET held == SelectSeq(FlagConditions(flagsIn), LAMBDA c : c.holds)
        IN /\ Len(warnings) = Len(held)
           /\ \A i \in DOMAIN held : warnings[i] = held[i].warning
           /\ flags = flagsIn

\* C16 witness: the first and the third condition hold (the identity is
\* missing although an Eddress alone would have been enough), the second
\* does not; two warnings are returned in that order.
C16_Witness ==
    /\ pc = "validated"
    /\ flagsIn.IsForce /\ ~flagsIn.IsAmend
    /\ flagsIn.NoCommit /\ flagsIn.Message = ""
    /\ ~flagsIn.AutoSign
    /\ flagsIn.Username = "" /\ flagsIn.Mailbox = "" /\ flagsIn.Eddress = ""
    /\ warnings = <<ForceWithoutAmend, NoIdentity>>

(***************************************************************************)
(* Properties of FormatChangedGoFiles (SpecFormat)                         *)
(***************************************************************************)

\* C17: a file whose content differs after FormatChangedGoFiles was a changed
\* file with extension .go that allowFormat accepts; so every file that
\* allowFormat rejects, every unchanged file and every file of another type
\* keeps its content, whether or not the call fails.  Under
\* DefaultAllowFormat a generated .pb.go file is among the rejected ones.
C17_FormatsOnlyAllowedChangedGo ==
    pc = "formatted" =>
        /\ \A p \in Paths :
              files[p].src # repoIn.files[p].src
                  => /\ repoIn.files[p].st # "clean"
                     /\ p.suffix \in {".go", ".pb.go"}
                     /\ allowFormat[p]
        /\ \A p \in Paths :
              (\/ ~allowFormat[p]
               \/ repoIn.files[p].st = "clean"
               \/ p.suffix = ".txt") => files[p] = repoIn.files[p]
        /\ allowFormat = DefaultAllow => files[GeneratedPath] = repoIn.files[GeneratedPath]

\* C17 witness: two changed, unformatted Go files; allowFormat accepts one of
\* them only, and only that one was formatted.
C17_Witness ==
    /\ pc = "formatted"
    /\ ~err
    /\ allowFormat[GeneratedPath] /\ ~allowFormat[MainPath]
    /\ repoIn.files[MainPath] = [st |-> "staged", src |-> "unformatted"]
    /\ repoIn.files[GeneratedPath] = [st |-> "staged", src |-> "unformatted"]
    /\ files[MainPath] = repoIn.files[MainPath]
    /\ files[GeneratedPath].src = "formatted"

(***************************************************************************)
(* Further properties of the matcher (SpecMatch)                           *)
(***************************************************************************)

\* the wildcard-free strings of 1..n characters
LiteralStrings(n) ==
    {x \in StringsUpTo(n) : x # <<>> /\ \A i \in DOMAIN x : x[i] # "*"}

\* P with the '*' at position i replaced by the string lit
Specialise(P, i, lit) == SubSeq(P, 1, i - 1) \o lit \o SubSeq(P, i + 1, Len(P))

\* C18: when the pattern matches the URL, every pattern obtained from it by
\* replacing one '*' by a wildcard-free string of at least one character, and
\* matching the same URL, scores strictly higher.
C18_SpecialisationScoresHigher ==
    pc = "matched" /\ score # -1 =>
        \A i \in DOMAIN pattern : \A lit \in LiteralStrings(MaxLen) :
            (pattern[i] = "*"
             /\ MatchRemotePattern(Specialise(pattern, i, lit), remoteURL) # -1)
                => MatchRemotePattern(Specialise(pattern, i, lit), remoteURL) > score

\* C18 witness: "*a" matches "aaa" with score 1 and its specialisation "aaa"
\* (the '*' replaced by "aa") matches with score 3.
C18_Witness ==
    /\ pc = "matched"
    /\ pattern = <<"*", "a">>
    /\ remoteURL = <<"a", "a", "a">>
    /\ score = 1
    /\ MatchRemotePattern(Specialise(pattern, 1, <<"a", "a">>), remoteURL) = 3

\* the bytes of a character in UTF-8, and len(s) of a Go string
Width(c) == IF c = "U+00E9" THEN 2 ELSE 1

RECURSIVE ByteLen(_)
ByteLen(s) == IF s = <<>> THEN 0 ELSE Width(Head(s)) + ByteLen(Tail(s))

\* C19 as claimed: a matching pattern scores at most len(U), and the
\* wildcard-free pattern identical to U scores len(U).
C19_ScoreAtMostLen ==
    pc = "matched" /\ score # -1 =>
        /\ score <= ByteLen(remoteURL)
        /\ ~ContainsWildcard(remoteURL) =>
              MatchRemotePattern(remoteURL, remoteURL) = ByteLen(remoteURL)

\* C19 amended: a matching pattern scores at most the number of characters of
\* U (which is at most len(U)); the wildcard-free pattern identical to U
\* scores exactly the number of characters of U, and no pattern matching U
\* scores higher than it.
C19_ScoreAtMostCharacters ==
    pc = "matched" /\ score # -1 =>
        /\ score <= Len(remoteURL)
        /\ Len(remoteURL) <= ByteLen(remoteURL)
        /\ ~ContainsWildcard(remoteURL) =>
              /\ MatchRemotePattern(remoteURL, remoteURL) = Len(remoteURL)
              /\ score <= MatchRemotePattern(remoteURL, remoteURL)

\* C19 witness: a pattern with a wildcard matches a URL of three characters
\* and four bytes with a score of 2.
C19_Witness ==
    /\ pc = "matched"
    /\ pattern = <<"a", "*", "U+00E9">>
    /\ remoteURL = <<"a", "a", "U+00E9">>
    /\ score = 2
    /\ Len(remoteURL) = 3
    /\ ByteLen(remoteURL) = 4

\* C20 as claimed: a string matches itself, with score len(U) when it has no
\* '*' and with the number of its characters other than '*' when it has.
C20_SelfMatchScoresLen ==
    pc = "matched" /\ pattern = remoteURL =>
        /\ score # -1
        /\ IF ContainsWildcard(remoteURL)
           THEN score = Cardinality({i \in DOMAIN remoteURL : remoteURL[i] # "*"})
           ELSE score = ByteLen(remoteURL)

\* C20 amended: a string matches itself, with the number of its characters
\* as score when it has no '*' (len(U) when every character is a single
\* byte), and with the number of its characters other than '*' when it has.
C20_SelfMatchScoresCharacters ==
    pc = "matched" /\ pattern = remoteURL =>
        /\ score # -1
        /\ IF ContainsWildcard(remoteURL)
           THEN score = Cardinality({i \in DOMAIN remoteURL : remoteURL[i] # "*"})
           ELSE /\ score = Len(remoteURL)
                /\ (\A i \in DOMAIN remoteURL : Width(remoteURL[i]) = 1)
                      => score = ByteLen(remoteURL)

\* C20 witness: a string with a '*' between a one-byte and a two-byte
\* character was matched against itself and scored 2.
C20_Witness ==
    /\ pc = "matched"
    /\ pattern = <<"a", "*", "U+00E9">>
    /\ remoteURL = pattern
    /\ score = 2

(***************************************************************************)
(* Properties of the matcher on arbitrary strings (SpecGlob)               *)
(***************************************************************************)

\* C21: a pattern without '*' matches exactly the URL equal to it, and then
\* scores the number of its characters; the empty pattern scores 0 on the
\* empty URL and -1 on every other; a pattern with a character other than
\* '*' scores -1 on the empty URL.
C21_LiteralPatternMatchesEqualOnly ==
    pc = "matched" =>
        /\ (\A i \in DOMAIN pattern : pattern[i] # "*") =>
              /\ score # -1 <=> pattern = remoteURL
              /\ score # -1 => score = Len(pattern)
        /\ pattern = <<>> => score = (IF remoteURL = <<>> THEN 0 ELSE -1)
        /\ (remoteURL = <<>> /\ \E i \in DOMAIN pattern : pattern[i] # "*")
              => score = -1

\* C21 witness: a pattern without '*' was refused for a URL of the same
\* length that differs from it in the last place.
C21_Witness ==
    /\ pc = "matched"
    /\ pattern = <<"a", "U+00E9">>
    /\ remoteURL = <<"a", "a">>
    /\ score = -1

\* C27 as claimed: matchGlob gives what the backtracking matcher gives when
\* it is applied directly to the runes of the URL and of the pattern.
C27_FastPathsAgreeWithRecursion ==
    pc = "matched" =>
        (score # -1 <=> matchGlobRecursive(Runes(remoteURL), Runes(pattern)))

(***************************************************************************)
(* Properties of the matcher, continued (SpecMatch)                        *)
(***************************************************************************)

\* a signature that carries the one pattern p
OnePattern(p) == SignatureConfig("user", "", "user@mail", <<p>>)

\* C22: "*" scores 0 on every URL, the empty one included; and a signature
\* whose pattern is "*" is returned by MatchSignature, before or after a
\* signature with another pattern, only when that pattern does not match
\* with a positive score.
C22_LoneWildcardScoresZero ==
    pc = "matched" =>
        /\ MatchRemotePattern(<<"*">>, remoteURL) = 0
        /\ pattern = <<"*">> => score = 0
        /\ MatchSignature(<<OnePattern(<<"*">>), OnePattern(pattern)>>, remoteURL) = 1
              => score <= 0
        /\ MatchSignature(<<OnePattern(pattern), OnePattern(<<"*">>)>>, remoteURL) = 2
              => score <= 0
        /\ MatchSignature(<<OnePattern(<<"*">>), OnePattern(pattern)>>, remoteURL)
              # NilSignature

\* C22 witness: on the empty URL a literal pattern does not match, "*" does,
\* and the signature of "*" listed second is returned.
C22_Witness ==
    /\ pc = "matched"
    /\ remoteURL = <<>>
    /\ pattern = <<"a">>
    /\ score = -1
    /\ MatchRemotePattern(<<"*">>, remoteURL) = 0
    /\ MatchSignature(<<OnePattern(pattern), OnePattern(<<"*">>)>>, remoteURL) = 2

\* P without its i-th character
RemoveAt(P, i) == SubSeq(P, 1, i - 1) \o SubSeq(P, i + 1, Len(P))

\* P with every run of consecutive '*' collapsed into one '*'
RECURSIVE CollapseStars(_)
CollapseStars(P) ==
    IF Len(P) < 2 THEN P
    ELSE IF P[1] = "*" /\ P[2] = "*" THEN CollapseStars(Tail(P))
    ELSE <<P[1]>> \o CollapseStars(Tail(P))

\* C23: removing one '*' of two adjacent ones, and collapsing every run of
\* '*' into a single one, changes neither whether the pattern matches the
\* URL nor the score.
C23_ConsecutiveWildcardsCollapse ==
    pc = "matched" =>
        /\ MatchRemotePattern(CollapseStars(pattern), remoteURL) = score
        /\ \A i \in 1..(Len(pattern) - 1) :
              (pattern[i] = "*" /\ pattern[i + 1] = "*")
                  => MatchRemotePattern(RemoveAt(pattern, i), remoteURL) = score

\* C23 witness: "**a" matches a URL ending in "a" with score 1, as "*a" does.
C23_Witness ==
    /\ pc = "matched"
    /\ pattern = <<"*", "*", "a">>
    /\ remoteURL = <<"U+00E9", "a">>
    /\ score = 1
    /\ CollapseStars(pattern) = <<"*", "a">>

\* every activation of matchGlobRecursive that the call on <<u, p>> can lead to
RECURSIVE Activations(_)
Activations(c) ==
    {c} \cup UNION {Activations(d) : d \in RecursiveCalls(c[1], c[2])}

\* C24: MatchRemotePattern always returns, with a value between -1 and the
\* length of the pattern: every recursive call of the backtracking matcher
\* is on a strictly shorter pattern and on a suffix of the URL, so the
\* recursion is at most as deep as the pattern is long; MatchSignature
\* returns nil on the empty list and nil or the signature on a list of one.
C24_CallsReturn ==
    /\ pc = "input" => ENABLED CallMatchRemotePattern
    /\ pc = "matched" =>
          /\ score \in -1..Len(pattern)
          /\ \A c \in Activations(<<Runes(remoteURL), Runes(pattern)>>) :
                \A d \in RecursiveCalls(c[1], c[2]) :
                    /\ Len(d[2]) < Len(c[2])
                    /\ Len(d[1]) <= Len(c[1])
          /\ MatchSignature(<<>>, remoteURL) = NilSignature
          /\ MatchSignature(<<OnePattern(pattern)>>, remoteURL)
                = (IF score = -1 THEN NilSignature ELSE 1)

\* C24 witness: a pattern of consecutive '*' followed by a literal that the
\* URL does not end with was tried in every way and refused.
C24_Witness ==
    /\ pc = "matched"
    /\ pattern = <<"*", "*", "a">>
    /\ remoteURL = <<"a", "a", "U+00E9">>
    /\ score = -1

(***************************************************************************)
(* Properties of GitCommit, continued (SpecCommit)                         *)
(***************************************************************************)

\* C26: the mailbox of the commit that GitCommit creates or amends is the
\* flags' Mailbox when that is non-empty, and their Eddress only when the
\* Mailbox is empty; when both are empty and AutoSign is unset it is empty.
C26_MailboxBeforeEddress ==
    CommitMade /\ ~configGiven =>
        /\ flagsIn.Mailbox # "" => HeadNow.Mailbox = flagsIn.Mailbox
        /\ (flagsIn.Mailbox = "" /\ flagsIn.Eddress # "")
              => HeadNow.Mailbox = flagsIn.Eddress
        /\ (flagsIn.Mailbox = "" /\ flagsIn.Eddress = "" /\ ~flagsIn.AutoSign)
              => HeadNow.Mailbox = ""

\* C26 witness: HEAD was amended with both Mailbox and Eddress given, under
\* AutoSign with a mailbox in git config; the Mailbox is the author's.
C26_Witness ==
    /\ CommitMade
    /\ ~configGiven
    /\ calls[Len(calls)] = "AmendCommit"
    /\ flagsIn.Mailbox = "cli@mailbox"
    /\ flagsIn.Eddress = "cli@eddress"
    /\ flagsIn.AutoSign
    /\ gitConfig.email = "git@config"
    /\ HeadNow.Mailbox = "cli@mailbox"

\* the positions in calls of the collaborator call c
At(c) == {i \in DOMAIN calls : calls[i] = c}

\* C28: a format, a commit and an amend come after a stage-all; formatting
\* happens only with FormatGo, and then between the first stage-all and a
\* second one that precedes the commit or amend; at most one of commit and
\* amend is called, amend only with IsAmend and commit only without; IsForce
\* is handed to amend alone, and without IsAmend the run with the opposite
\* IsForce has the same outcome.
C28_CollaboratorOrder ==
    pc = "done" =>
        /\ \A i \in At("FormatChangedGoFiles") \cup At("CommitAll") \cup At("AmendCommit") :
              \E j \in At("AddAll") : j < i
        /\ At("FormatChangedGoFiles") # {} => flagsIn.FormatGo
        /\ flagsIn.FormatGo =>
              \A i \in At("CommitAll") \cup At("AmendCommit") :
                  \E a \in At("AddAll"), g \in At("FormatChangedGoFiles"), b \in At("AddAll") :
                      a < g /\ g < b /\ b < i
        /\ Cardinality(At("CommitAll") \cup At("AmendCommit")) <= 1
        /\ At("AmendCommit") # {} => flagsIn.IsAmend
        /\ At("CommitAll") # {} => ~flagsIn.IsAmend
        /\ amendConfig # <<>> <=> At("AmendCommit") # {}
        /\ amendConfig # <<>> => amendConfig[1].ForceAmend = flagsIn.IsForce
        /\ ~flagsIn.IsAmend =>
              \E failAt \in 0..Len(CallOrder),
                 visited \in SUBSET FilesToFormat(AddAll(repoIn.files)) :
                  GitCommitOutcome([flagsIn EXCEPT !.IsForce = ~@], gitConfig,
                                   [files |-> repoIn.files, commits |-> repoIn.commits,
                                    nextId |-> 1],
                                   failAt, visited)
                    = [files |-> files, commits |-> commits, nextId |-> nextId,
                       err |-> err, calls |-> calls, amendConfig |-> amendConfig]

\* C28 witness: with FormatGo and IsForce but without IsAmend the run made
\* all eight calls, the last of them the commit.
C28_Witness ==
    /\ pc = "done"
    /\ ~err
    /\ flagsIn.FormatGo /\ flagsIn.IsForce /\ ~flagsIn.IsAmend
    /\ calls = CallOrder
    /\ amendConfig = <<>>

(***************************************************************************)
(* SpecOrder: MatchSignature on configurations whose signatures list the   *)
(* universal, the prefix and the exact pattern in every order              *)
(***************************************************************************)

OrderPatterns == {<<"*">>, <<"a", "*">>, <<"a", "b">>}

OrderConfigs ==
    UNION {[1..n -> {SignatureConfig("user", "", "user@mail", ps) :
                        ps \in DistinctSeqs(OrderPatterns, MaxPatterns)}]
              : n \in 0..MaxSignatures}

InitOrder ==
    /\ pc = "config"
    /\ signatures \in OrderConfigs
    /\ remoteURL \in URLPool
    /\ bestMatch = "unset"
    /\ MatcherIdle /\ RemotesIdle /\ FlagsIdle /\ RepoIdle /\ ToolsIdle

NextOrder == CallMatchSignature

SpecOrder == InitOrder /\ [][NextOrder]_vars

(***************************************************************************)
(* Properties of the resolver under reordering (SpecOrder)                 *)
(***************************************************************************)

\* the orders in which the elements of the sequence q can be listed
Reorderings(q) ==
    {[k \in DOMAIN q |-> q[f[k]]] :
        f \in {g \in [DOMAIN q -> DOMAIN q] :
                  \A a, b \in DOMAIN q : a # b => g[a] # g[b]}}

\* C29: listing the patterns of any one signature in another order leaves
\* the signature that MatchSignature returns unchanged.
C29_PatternOrderIrrelevant ==
    pc = "selected" =>
        \A i \in DOMAIN signatures :
            \A pats \in Reorderings(signatures[i].RemotePatterns) :
                MatchSignature([signatures EXCEPT ![i].RemotePatterns = pats], remoteURL)
                    = bestMatch

\* C29 witness: the second signature lists "*" before the exact pattern and
\* is returned ahead of a first signature with a prefix pattern that matches.
C29_Witness ==
    /\ pc = "selected"
    /\ remoteURL = <<"a", "b">>
    /\ Len(signatures) >= 2
    /\ signatures[1].RemotePatterns = << <<"a", "*">> >>
    /\ signatures[2].RemotePatterns = << <<"*">>, <<"a", "b">> >>
    /\ bestMatch = 2

(***************************************************************************)
(* SpecConcurrent: MatchSignature called by several threads, any number of *)
(* times each, on one configuration; a step of a thread is one loop head,  *)
(* one call of MatchRemotePattern or one comparison with its update        *)
(***************************************************************************)

Threads == 1..MaxThreads

\* a plausible slip: bestMatch and bestMatchScore kept in one place for all calls
sharedCell(t) == 1

\* bestMatch and bestMatchScore are variables of the call: each call has its own
scoreCell(t) == t

ConcurrentConfigs ==
    {<<SignatureConfig("user", "", "user@mail", << <<"*">> >>),
       SignatureConfig("user", "", "user@mail", << <<"a", "*">>, <<"a", "b">> >>)>>,
     <<SignatureConfig("user", "", "user@mail", << <<"a", "b">> >>),
       SignatureConfig("user", "", "user@mail", << <<"a", "*">> >>)>>}

NoCall ==
    [pc |-> "idle", url |-> <<>>, i |-> 0, j |-> 0, score |-> InitialBestScore,
     result |-> "unset", interleaved |-> FALSE]

InCall(t) == threads[t].pc \in {"range", "compare"}

\* thread t moves to rec; the calls in progress in other threads have now
\* run next to a step of another thread
ThreadStep(t, rec) ==
    threads' = [s \in Threads |->
                   IF s = t THEN rec
                   ELSE IF InCall(s) THEN [threads[s] EXCEPT !.interleaved = TRUE]
                   ELSE threads[s]]

InitConcurrent ==
    /\ pc = "concurrent"
    /\ signatures \in ConcurrentConfigs
    /\ threads = [t \in Threads |-> NoCall]
    /\ cells = [c \in Threads |-> <<NilSignature, InitialBestScore>>]
    /\ remoteURL = <<>> /\ bestMatch = "unset"
    /\ MatcherIdle /\ RemotesIdle /\ FlagsIdle /\ RepoIdle
    /\ warnings = <<>> /\ allowFormat = DefaultAllow /\ amendConfig = <<>>

ConcurrentIdle ==
    UNCHANGED <<pc, pattern, remoteURL, score, signatures, bestMatch, remotes,
                matchCalled, resolved, configGiven, flagsIn, flags, gitConfig, repoIn,
                files, commits, nextId, err, calls, warnings, allowFormat, amendConfig>>

\* entry: var bestMatch *SignatureConfig; bestMatchScore := -1
Call(t) ==
    /\ threads[t].pc \in {"idle", "done"}
    /\ \E u \in URLPool :
          ThreadStep(t, [pc |-> "range", url |-> u, i |-> 1, j |-> 1,
                         score |-> InitialBestScore, result |-> "unset",
                         interleaved |-> FALSE])
    /\ cells' = [cells EXCEPT ![scoreCell(t)] = <<NilSignature, InitialBestScore>>]
    /\ ConcurrentIdle

\* the inner range is exhausted: on to the next signature
NextSignature(t) ==
    /\ threads[t].pc = "range"
    /\ threads[t].i <= Len(signatures)
    /\ threads[t].j > Len(signatures[threads[t].i].RemotePatterns)
    /\ ThreadStep(t, [threads[t] EXCEPT !.i = @ + 1, !.j = 1])
    /\ UNCHANGED cells
    /\ ConcurrentIdle

\* score := utils.MatchRemotePattern(pattern, remoteURL)
Match(t) ==
    /\ threads[t].pc = "range"
    /\ threads[t].i <= Len(signatures)
    /\ threads[t].j <= Len(signatures[threads[t].i].RemotePatterns)
    /\ ThreadStep(t, [threads[t] EXCEPT
                         !.score = MatchRemotePattern(
                                       signatures[threads[t].i].RemotePatterns[threads[t].j],
                                       threads[t].url),
                         !.pc = "compare"])
    /\ UNCHANGED cells
    /\ ConcurrentIdle

\* if score > bestMatchScore { bestMatchScore = score; bestMatch = signature }
Compare(t) ==
    /\ threads[t].pc = "compare"
    /\ cells' = IF replaces(threads[t].score, cells[scoreCell(t)][2])
                THEN [cells EXCEPT ![scoreCell(t)] = <<threads[t].i, threads[t].score>>]
                ELSE cells
    /\ ThreadStep(t, [threads[t] EXCEPT !.j = @ + 1, !.pc = "range",
                                        !.score = InitialBestScore])
    /\ ConcurrentIdle

\* the outer range is exhausted: return bestMatch
Return(t) ==
    /\ threads[t].pc = "range"
    /\ threads[t].i > Len(signatures)
    /\ ThreadStep(t, [threads[t] EXCEPT !.result = cells[scoreCell(t)][1], !.pc = "done"])
    /\ UNCHANGED cells
    /\ ConcurrentIdle

NextConcurrent ==
    \E t \in Threads :
        \/ Call(t)
        \/ NextSignature(t)
        \/ Match(t)
        \/ Compare(t)
        \/ Return(t)

SpecConcurrent == InitConcurrent /\ [][NextConcurrent]_vars

(***************************************************************************)
(* Properties of concurrent calls (SpecConcurrent)                         *)
(***************************************************************************)

\* C25: no step of a call changes the signature list, and every call that
\* returns, next to whatever other calls, returns what one isolated call
\* with the same configuration and URL returns.
C25_CallsAreIndependent ==
    /\ [](\A t \in Threads :
             threads[t].pc = "done" =>
                 threads[t].result = MatchSignature(signatures, threads[t].url))
    /\ [][signatures' = signatures]_vars

\* C25 witness: two calls with different URLs that ran next to each other
\* have both returned, with different signatures.
C25_Witness ==
    /\ pc = "concurrent"
    /\ threads[1].pc = "done" /\ threads[1].interleaved
    /\ threads[2].pc = "done" /\ threads[2].interleaved
    /\ threads[1].url # threads[2].url
    /\ threads[1].result # threads[2].result

(***************************************************************************)
(* commitmate: GenerateConfigTemplate (config_demo.go)                     *)
(***************************************************************************)

\* strings.LastIndex(s, c) for a one-byte c: the 0-based index of the last
\* c in s, -1 when there is none
RECURSIVE LastIndex(_, _)
LastIndex(s, c) ==
    IF s = <<>> THEN -1
    ELSE IF s[Len(s)] = c THEN Len(s) - 1
    ELSE LastIndex(SubSeq(s, 1, Len(s) - 1), c)

\* strings.TrimSuffix(s, suffix)
TrimSuffix(s, suffix) ==
    IF /\ Len(s) >= Len(suffix)
       /\ SubSeq(s, Len(s) - Len(suffix) + 1, Len(s)) = suffix
    THEN SubSeq(s, 1, Len(s) - Len(suffix))
    ELSE s

GitSuffix == <<".", "g", "i", "t">>

ConfigNameSuffix == <<"-", "g", "i", "t", "-", "c", "o", "n", "f", "i", "g">>

DefaultConfigName == <<"g", "i", "t", "-", "c", "o", "n", "f", "i", "g">>

\* the URL the template is built from when the repository has no remote
DefaultRemoteURL ==
    <<"g", "i", "t", "@", "g", "i", "t", "h", "u", "b", ".", "c", "o",
    "m", ":", "u", "s", "e", "r", "n", "a", "m", "e", "/", "r", "e", "p",
    "o", ".", "g", "i", "t">>

generateConfigName(u) ==
    LET slashIdx == LastIndex(u, "/")
    IN IF slashIdx = -1 THEN DefaultConfigName
       ELSE TrimSuffix(SubSeq(u, slashIdx + 2, Len(u)), GitSuffix) \o ConfigNameSuffix

\* a plausible slip: the URL is cut after its last '/' and no '*' is added
generatePatternWithoutWildcard(u) ==
    LET slashIdx == LastIndex(u, "/")
    IN IF slashIdx = -1 THEN u ELSE SubSeq(u, 1, slashIdx + 1)

generatePattern(u) ==
    LET slashIdx == LastIndex(u, "/")
    IN IF slashIdx = -1 THEN u ELSE SubSeq(u, 1, slashIdx + 1) \o <<"*">>

\* generateSignatureTemplate, given what getOriginRemoteURL returned
generateSignatureTemplate(u) ==
    LET url == IF u # <<>> THEN u ELSE DefaultRemoteURL   \* zerotern.VV
    IN [Name |-> generateConfigName(url), Username |-> "your-username",
        Mailbox |-> "", Eddress |-> "your-email@example.com",
        RemotePatterns |-> <<generatePattern(url)>>]

GenerateConfigTemplate(u) == <<generateSignatureTemplate(u)>>

(***************************************************************************)
(* SpecTemplate: generatePattern on every URL, then the template built for *)
(* a repository with that URL and MatchSignature of the template on it     *)
(***************************************************************************)

\* a literal, a two-byte character, the separator, the wildcard, an invalid byte
TemplateAlphabet == {"a", "U+00E9", "/", "*", "0xFF"}

TemplateURLs == UNION {[1..k -> TemplateAlphabet] : k \in 0..MaxLen}

InitTemplate ==
    /\ pc = "url"
    /\ remoteURL \in TemplateURLs
    /\ pattern = <<>> /\ score = "unset"
    /\ ResolverIdle /\ RemotesIdle /\ FlagsIdle /\ RepoIdle /\ ToolsIdle

CallGeneratePattern ==
    /\ pc = "url"
    /\ pattern' = generatePattern(remoteURL)
    /\ pc' = "pattern"
    /\ UNCHANGED <<remoteURL, score, signatures, bestMatch, remotes, matchCalled,
                   resolved, configGiven, flagsIn, flags, gitConfig, repoIn, files,
                   commits, nextId, err, calls, warnings, allowFormat, amendConfig,
                   threads, cells>>

CallGenerateConfigTemplate ==
    /\ pc = "pattern"
    /\ signatures' = GenerateConfigTemplate(remoteURL)
    /\ pc' = "config"
    /\ UNCHANGED <<pattern, remoteURL, score, bestMatch, remotes, matchCalled,
                   resolved, configGiven, flagsIn, flags, gitConfig, repoIn, files,
                   commits, nextId, err, calls, warnings, allowFormat, amendConfig,
                   threads, cells>>

NextTemplate ==
    \/ CallGeneratePattern
    \/ CallGenerateConfigTemplate
    \/ CallMatchSignature

SpecTemplate == InitTemplate /\ [][NextTemplate]_vars

(***************************************************************************)
(* Properties of the template (SpecTemplate)                               *)
(***************************************************************************)

\* p is u cut after its last '/' and followed by '*', or u when u has no '/'
CutAfterLastSlash(u, p) ==
    IF \E k \in DOMAIN u : u[k] = "/"
    THEN \E k \in DOMAIN u :
            /\ u[k] = "/"
            /\ \A m \in DOMAIN u : m > k => u[m] # "/"
            /\ p = SubSeq(u, 1, k) \o <<"*">>
    ELSE p = u

\* C30: the generated pattern is the URL cut after its last '/' plus '*' (the
\* URL itself without '/') and matches the URL; the template of a repository
\* with a remote URL holds exactly that pattern, and MatchSignature of the
\* template on the URL returns the template's signature.
C30_TemplateMatchesItsURL ==
    /\ pc # "url" =>
          /\ CutAfterLastSlash(remoteURL, pattern)
          /\ MatchRemotePattern(pattern, remoteURL) # -1
    /\ pc \in {"config", "selected"} /\ remoteURL # <<>> =>
          /\ Len(signatures) = 1
          /\ signatures[1].RemotePatterns = <<pattern>>
    /\ pc = "selected" /\ remoteURL # <<>> => bestMatch = 1

\* C30 witness: a URL with two '/' has been cut after the second, and its
\* template has resolved to the template's signature.
C30_Witness ==
    /\ pc = "selected"
    /\ remoteURL = <<"/", "/", "a">>
    /\ pattern = <<"/", "/", "*">>
    /\ signatures[1].RemotePatterns = << <<"/", "/", "*">> >>
    /\ bestMatch = 1

====
